---- MODULE Spec2Model ----
(***************************************************************************)
(* Order lifecycle of the smart-canteen backend: backend/routes/orders.js  *)
(* (checkout, verify, scan, deliver, cancel), the Order and Menu schemas   *)
(* (models/Order.js with its pre('save') hook, models/Menu.js) and the     *)
(* admin price edit of backend/routes/menu.js.                             *)
(*                                                                         *)
(* Two specifications share the state and the helper operators:            *)
(*   Spec   one request at a time, each handler run from its first line to *)
(*          its response as one action;                                    *)
(*   SpecC  NumProcs requests in flight, each handler split at its awaits  *)
(*          (one action per database / gateway round trip).                *)
(***************************************************************************)
EXTENDS Integers, Sequences, FiniteSets, TLC

\* ---------------------------------------------------------------- bounds
NumItems  == 2      \* catalog items 1..NumItems
MaxStock  == 2      \* stockCount of every catalog item at the start
MaxPrice  == 2      \* prices 1..MaxPrice
MaxQty    == 1      \* requested quantity 1..MaxQty
MaxLines  == 2      \* lines of one cart
MaxOrders == 2      \* orders ever created
MaxClock  == 1      \* Date.now() ranges over 0..MaxClock
NumRand   == 1      \* values crypto.randomBytes(8) can take
MaxReqs   == 5      \* requests ever started (Spec)
MaxEdits  == 1      \* admin menu edits ever made
NumProcs  == 2      \* requests in flight at once (SpecC)
MaxOrdersC == 1     \* orders ever created under SpecC
MaxReqsC  == 4      \* requests ever started under SpecC

Items    == 1..NumItems
Missing  == 0                        \* an id no catalog item has
ItemRefs == Items \cup {Missing}
Procs    == 1..NumProcs
Rands    == 1..NumRand
Clock    == 0..MaxClock

\* ---------------------------------------------------------------- values
NoToken  == << >>                    \* qrCodeData default ""
NoDate   == -1                       \* scannedAt / deliveredAt unset
NoHandle == << >>
NoOrder  == 0                        \* findOne / findById returned null

MockHandle(ts) == <<"mock_order", ts>>
GatewayHandle(n) == <<"rzp", n>>
Token(ts, r) == <<"ORD", ts, r>>

Carts == UNION {[1..n -> [menuItem : ItemRefs, quantity : 1..MaxQty]] : n \in 1..MaxLines}
Handles == {MockHandle(t) : t \in Clock} \cup {GatewayHandle(n) : n \in 1..MaxOrders}
Tokens == {Token(t, r) : t \in Clock, r \in Rands}
\* razorpay_signature: the gateway's own signature of the payment, or any other.
Proofs == {"genuine", "forged"}

VARIABLES
    stockCount, \* Menu.stockCount, per catalog item
    price,      \* Menu.price, per catalog item
    orders,     \* the Order collection, in insertion order; _id = index
    razorpay,   \* the module-level gateway client: TRUE when configured
    gw,         \* orders the gateway has created
    now,        \* Date.now()
    reqs,       \* requests started
    edits,      \* admin edits made
    pc,         \* per request slot: the await it is suspended at
    loc,        \* per request slot: the handler's local variables
    resp        \* per request slot: the last response sent

vars == <<stockCount, price, orders, razorpay, gw, now, reqs, edits, pc, loc, resp>>

\* ---------------------------------------------------------------- schema
NewOrder(items, total, handle) ==
    [ items           |-> items,
      totalAmount     |-> total,
      razorpayOrderId |-> handle,
      paymentStatus   |-> "pending",
      qrCodeData      |-> NoToken,
      status          |-> "pending_payment",
      scannedAt       |-> NoDate,
      deliveredAt     |-> NoDate ]

NoDoc == NewOrder(<< >>, 0, NoHandle)

\* A loaded mongoose document: its field values and its modified paths.
Load(o) == [id |-> o, doc |-> orders[o], mod |-> {}]
NoLoad == [id |-> NoOrder, doc |-> NoDoc, mod |-> {}]

\* doc.f = v : a path is marked modified only when the value changes.
Assign(d, f, v) ==
    [d EXCEPT !.doc = [d.doc EXCEPT ![f] = v],
              !.mod = IF d.doc[f] # v THEN d.mod \cup {f} ELSE d.mod]

\* The hook minting the token for a document still awaiting payment only.
PreSaveOnCreate(d, ts, r) ==
    IF d.doc.status = "pending_payment" /\ d.doc.qrCodeData = NoToken
    THEN Assign(d, "qrCodeData", Token(ts, r))
    ELSE d

\* orderSchema.pre('save'): mint the token when the document is active and has none.
PreSave(d, ts, r) ==
    IF d.doc.status = "active" /\ d.doc.qrCodeData = NoToken
    THEN Assign(d, "qrCodeData", Token(ts, r))
    ELSE d

\* doc.save() of a loaded document: $set of the modified paths on the stored one.
SaveDoc(stored, d) ==
    [f \in DOMAIN stored |-> IF f \in d.mod THEN d.doc[f] ELSE stored[f]]

Save(ords, d) == [ords EXCEPT ![d.id] = SaveDoc(@, d)]

\* ---------------------------------------------------------------- queries
Matches(ords, f, v) == {o \in 1..Len(ords) : ords[o][f] = v}

Lowest(S) == CHOOSE o \in S : \A q \in S : o <= q

\* Order.findOne({f: v}): the first match in insertion order, or null.
FindOne(ords, f, v) ==
    IF Matches(ords, f, v) = {} THEN NoOrder ELSE Lowest(Matches(ords, f, v))

\* Order.findById(id)
FindById(ords, id) == IF id \in 1..Len(ords) THEN id ELSE NoOrder

\* The update written with the delta as the new value instead of as an increment.
IncStockAsSet(stk, ref, d) ==
    IF ref \in DOMAIN stk THEN [stk EXCEPT ![ref] = d] ELSE stk

\* Menu.findByIdAndUpdate(ref, {$inc: {stockCount: d}}): no validators run.
IncStock(stk, ref, d) ==
    IF ref \in DOMAIN stk THEN [stk EXCEPT ![ref] = @ + d] ELSE stk

\* ---------------------------------------------------------------- responses
\* res.status(..).json(..): the error kind, the order and the document sent back.
Reply(op, kind, d) ==
    [ op |-> op, kind |-> kind, order |-> d.id,
      status |-> d.doc.status, qrCodeData |-> d.doc.qrCodeData ]

NoReply == Reply("none", "none", NoLoad)

IdleLoc == [cart |-> << >>, idx |-> 0, items |-> << >>, total |-> 0,
            handle |-> NoHandle, d |-> NoLoad]

Quiet == \A q \in Procs : pc[q] = "idle"
InCheckout == {q \in Procs : pc[q] \in {"checkout_line", "checkout_gateway", "checkout_create"}}

\* ---------------------------------------------------------------- checkout
\* The stock check off by one: a line asking for one more than the stock passes.
CheckLineOffByOne(line, stk) ==
    IF line.menuItem \notin DOMAIN stk THEN "NotFound"
    ELSE IF stk[line.menuItem] < line.quantity - 1 THEN "InsufficientStock"
    ELSE "ok"

\* One pass of the for loop body, lines 38-42: the stock check of a requested line.
CheckLine(line, stk) ==
    IF line.menuItem \notin DOMAIN stk THEN "NotFound"
    ELSE IF stk[line.menuItem] < line.quantity THEN "InsufficientStock"
    ELSE "ok"

\* The line's contribution with the quantity added to the price, not multiplied.
LineTotalAdded(line, prc) == prc[line.menuItem] + line.quantity

\* Line 44: the line's contribution to totalAmount.
LineTotal(line, prc) == prc[line.menuItem] * line.quantity

\* Lines 45-50: the order line, with the price snapshotted.
OrderItem(line, prc) ==
    [menuItem |-> line.menuItem, quantity |-> line.quantity, price |-> prc[line.menuItem]]

\* The whole for loop, lines 34-51, against one catalog snapshot.
RECURSIVE CheckoutLoop(_, _, _, _, _, _)
CheckoutLoop(cart, i, items, total, stk, prc) ==
    IF i > Len(cart) THEN [kind |-> "ok", items |-> items, total |-> total]
    ELSE IF CheckLine(cart[i], stk) # "ok"
         THEN [kind |-> CheckLine(cart[i], stk), items |-> items, total |-> total]
    ELSE CheckoutLoop(cart, i + 1, Append(items, OrderItem(cart[i], prc)),
                      total + LineTotal(cart[i], prc), stk, prc)

\* Lines 53-76: the gateway's order id, or the mock id when there is no gateway
\* client or its call throws.
PaymentHandle(gwok) ==
    IF razorpay /\ gwok THEN GatewayHandle(gw + 1) ELSE MockHandle(now)

\* Lines 79-85: Order.create.
Created(items, total, handle) ==
    [id |-> Len(orders) + 1, doc |-> NewOrder(items, total, handle), mod |-> {}]

\* ---------------------------------------------------------------- transitions
\* verify, lines 124-125
Activate(d) == Assign(Assign(d, "paymentStatus", "completed"), "status", "active")

\* verify, line 111: the signature check, bypassed.
IsSignatureValid(proof) == TRUE

\* scan, lines 191-192
MarkScanned(d, ts) == Assign(Assign(d, "status", "scanned"), "scannedAt", ts)

\* deliver, lines 208-209
MarkDelivered(d, ts) == Assign(Assign(d, "status", "delivered"), "deliveredAt", ts)

\* cancel, line 232
MarkCancelled(d) == Assign(d, "status", "cancelled")

\* The scan guard refusing only finished orders.
ScanAllowedUntilDelivered(doc) == doc.status \in {"active", "scanned"}

\* scan, line 189
ScanAllowed(doc) == doc.status = "active"

\* The deliver guard letting an order skip the scan.
DeliverAllowedOnceActive(doc) == doc.status \in {"active", "scanned"}

\* deliver, line 206
DeliverAllowed(doc) == doc.status = "scanned"

\* The cancel guard refusing only delivered orders.
CancelAllowedUnlessDelivered(doc) == doc.status # "delivered"

\* cancel, line 224
CancelAllowed(doc) == ~(doc.status = "delivered" \/ doc.status = "scanned")

\* The stock loop returning after its first pass.
AdjustAllOnce(stk, items, i, sign) ==
    IF i > Len(items) THEN stk
    ELSE IncStock(stk, items[i].menuItem, sign * items[i].quantity)

\* verify lines 120-122 (sign = -1) and cancel lines 228-230 (sign = 1): one
\* $inc per order line, from line i on.
RECURSIVE AdjustAll(_, _, _, _)
AdjustAll(stk, items, i, sign) ==
    IF i > Len(items) THEN stk
    ELSE AdjustAll(IncStock(stk, items[i].menuItem, sign * items[i].quantity),
                   items, i + 1, sign)

\* ---------------------------------------------------------------- Init
\* The server as started: a catalog of NumItems items, each with MaxStock in
\* stock and a price of its own, no orders, the gateway client configured or
\* not (lines 10-20), every request slot idle.
Init ==
    /\ stockCount = [i \in Items |-> MaxStock]
    /\ price = [i \in Items |-> IF i > MaxPrice THEN MaxPrice ELSE i]
    /\ orders = << >>
    /\ razorpay \in BOOLEAN
    /\ gw = 0
    /\ now = 0
    /\ reqs = 0
    /\ edits = 0
    /\ pc = [p \in Procs |-> "idle"]
    /\ loc = [p \in Procs |-> IdleLoc]
    /\ resp = [p \in Procs |-> NoReply]

\* Date.now() moves on.
Tick ==
    /\ now < MaxClock
    /\ now' = now + 1
    /\ UNCHANGED <<stockCount, price, orders, razorpay, gw, reqs, edits, pc, loc, resp>>

\* PUT /api/menu/:id with a new price.
UpdatePrice(i, v) ==
    /\ edits < MaxEdits
    /\ v # price[i]
    /\ price' = [price EXCEPT ![i] = v]
    /\ edits' = edits + 1
    /\ UNCHANGED <<stockCount, orders, razorpay, gw, now, reqs, pc, loc, resp>>

\* ================================================================ Spec
\* Each handler from its first line to its response, nothing else in flight.
Answer(p, r) == resp' = [resp EXCEPT ![p] = r]

Checkout(p, cart, gwok) ==
    /\ Quiet
    /\ reqs < MaxReqs
    /\ Len(orders) < MaxOrders
    /\ reqs' = reqs + 1
    /\ LET r == CheckoutLoop(cart, 1, << >>, 0, stockCount, price)
           d == Created(r.items, r.total, PaymentHandle(gwok))
       IN IF r.kind # "ok"
          THEN /\ Answer(p, Reply("checkout", r.kind, NoLoad))
               /\ UNCHANGED <<orders, gw>>
          ELSE /\ orders' = Append(orders, d.doc)
               /\ gw' = IF razorpay /\ gwok THEN gw + 1 ELSE gw
               /\ Answer(p, Reply("checkout", "ok", d))
    /\ UNCHANGED <<stockCount, price, razorpay, now, edits, pc, loc>>

VerifyPayment(p, h, proof, r) ==
    /\ Quiet
    /\ reqs < MaxReqs
    /\ reqs' = reqs + 1
    /\ LET o == FindOne(orders, "razorpayOrderId", h)
           d == PreSave(Activate(Load(o)), now, r)
       IN IF ~IsSignatureValid(proof)
          THEN /\ Answer(p, Reply("verify", "PaymentVerificationFailed", NoLoad))
               /\ UNCHANGED <<stockCount, orders>>
          ELSE IF o = NoOrder
          THEN /\ Answer(p, Reply("verify", "NotFound", NoLoad))
               /\ UNCHANGED <<stockCount, orders>>
          ELSE /\ stockCount' = AdjustAll(stockCount, orders[o].items, 1, -1)
               /\ orders' = Save(orders, d)
               /\ Answer(p, Reply("verify", "ok", d))
    /\ UNCHANGED <<price, razorpay, gw, now, edits, pc, loc>>

Scan(p, t) ==
    /\ Quiet
    /\ reqs < MaxReqs
    /\ reqs' = reqs + 1
    /\ LET o == FindOne(orders, "qrCodeData", t)
           d == MarkScanned(Load(o), now)
       IN IF o = NoOrder
          THEN /\ Answer(p, Reply("scan", "NotFound", NoLoad))
               /\ UNCHANGED orders
          ELSE IF ~ScanAllowed(orders[o])
          THEN /\ Answer(p, Reply("scan", "InvalidState", Load(o)))
               /\ UNCHANGED orders
          ELSE /\ orders' = Save(orders, d)
               /\ Answer(p, Reply("scan", "ok", d))
    /\ UNCHANGED <<stockCount, price, razorpay, gw, now, edits, pc, loc>>

Deliver(p, id) ==
    /\ Quiet
    /\ reqs < MaxReqs
    /\ reqs' = reqs + 1
    /\ LET o == FindById(orders, id)
           d == MarkDelivered(Load(o), now)
       IN IF o = NoOrder
          THEN /\ Answer(p, Reply("deliver", "NotFound", NoLoad))
               /\ UNCHANGED orders
          ELSE IF ~DeliverAllowed(orders[o])
          THEN /\ Answer(p, Reply("deliver", "InvalidState", Load(o)))
               /\ UNCHANGED orders
          ELSE /\ orders' = Save(orders, d)
               /\ Answer(p, Reply("deliver", "ok", d))
    /\ UNCHANGED <<stockCount, price, razorpay, gw, now, edits, pc, loc>>

Cancel(p, id) ==
    /\ Quiet
    /\ reqs < MaxReqs
    /\ reqs' = reqs + 1
    /\ LET o == FindById(orders, id)
           d == MarkCancelled(Load(o))
       IN IF o = NoOrder
          THEN /\ Answer(p, Reply("cancel", "NotFound", NoLoad))
               /\ UNCHANGED <<stockCount, orders>>
          ELSE IF ~CancelAllowed(orders[o])
          THEN /\ Answer(p, Reply("cancel", "InvalidState", Load(o)))
               /\ UNCHANGED <<stockCount, orders>>
          ELSE /\ stockCount' = AdjustAll(stockCount, orders[o].items, 1, 1)
               /\ orders' = Save(orders, d)
               /\ Answer(p, Reply("cancel", "ok", d))
    /\ UNCHANGED <<price, razorpay, gw, now, edits, pc, loc>>

First == Lowest(Procs)

Next ==
    \/ Tick
    \/ \E i \in Items, v \in 1..MaxPrice : UpdatePrice(i, v)
    \/ \E cart \in Carts, gwok \in BOOLEAN : Checkout(First, cart, gwok)
    \/ \E h \in Handles, proof \in Proofs, r \in Rands : VerifyPayment(First, h, proof, r)
    \/ \E t \in Tokens : Scan(First, t)
    \/ \E id \in 1..MaxOrders : Deliver(First, id)
    \/ \E id \in 1..MaxOrders : Cancel(First, id)

Spec == Init /\ [][Next]_vars

\* ================================================================ SpecC
\* The same handlers, one action per await.
Goto(p, label, l) ==
    /\ pc' = [pc EXCEPT ![p] = label]
    /\ loc' = [loc EXCEPT ![p] = l]

Done(p, r) ==
    /\ pc' = [pc EXCEPT ![p] = "idle"]
    /\ loc' = [loc EXCEPT ![p] = IdleLoc]
    /\ Answer(p, r)

Begin(p) ==
    /\ pc[p] = "idle"
    /\ reqs < MaxReqsC
    /\ reqs' = reqs + 1

\* checkout, lines 38-51 for line i of the cart: await Menu.findById, then the
\* check; after the last line, lines 72-76 run without an await when there is
\* no gateway client. r0 is the slot's response while the request is in
\* flight: none once a request has begun.
CheckoutAt(p, cart, i, items, total, r0) ==
    LET k == CheckLine(cart[i], stockCount)
        l == [IdleLoc EXCEPT !.cart = cart, !.idx = i + 1,
                             !.items = Append(items, OrderItem(cart[i], price)),
                             !.total = total + LineTotal(cart[i], price)]
    IN IF k # "ok" THEN Done(p, Reply("checkout", k, NoLoad))
       ELSE IF i < Len(cart) THEN Goto(p, "checkout_line", l) /\ Answer(p, r0)
       ELSE IF razorpay THEN Goto(p, "checkout_gateway", l) /\ Answer(p, r0)
       ELSE Goto(p, "checkout_create", [l EXCEPT !.handle = PaymentHandle(FALSE)])
            /\ Answer(p, r0)

CheckoutBegin(p, cart) ==
    /\ Begin(p)
    /\ Len(orders) + Cardinality(InCheckout) < MaxOrdersC
    /\ CheckoutAt(p, cart, 1, << >>, 0, NoReply)
    /\ UNCHANGED <<stockCount, price, orders, razorpay, gw, now, edits>>

CheckoutLine(p) ==
    /\ pc[p] = "checkout_line"
    /\ CheckoutAt(p, loc[p].cart, loc[p].idx, loc[p].items, loc[p].total, resp[p])
    /\ UNCHANGED <<stockCount, price, orders, razorpay, gw, now, reqs, edits>>

\* lines 57-71: await razorpay.orders.create, which returns an id or throws.
CheckoutGateway(p, gwok) ==
    /\ pc[p] = "checkout_gateway"
    /\ Goto(p, "checkout_create", [loc[p] EXCEPT !.handle = PaymentHandle(gwok)])
    /\ gw' = IF gwok THEN gw + 1 ELSE gw
    /\ UNCHANGED <<stockCount, price, orders, razorpay, now, reqs, edits, resp>>

\* lines 79-98: await Order.create, then the response.
CheckoutCreate(p) ==
    /\ pc[p] = "checkout_create"
    /\ LET d == Created(loc[p].items, loc[p].total, loc[p].handle)
       IN /\ orders' = Append(orders, d.doc)
          /\ Done(p, Reply("checkout", "ok", d))
    /\ UNCHANGED <<stockCount, price, razorpay, gw, now, reqs, edits>>

\* verify, lines 108-118: the signature check, then await Order.findOne.
VerifyFind(p, h, proof) ==
    /\ Begin(p)
    /\ LET o == FindOne(orders, "razorpayOrderId", h)
       IN IF ~IsSignatureValid(proof)
          THEN Done(p, Reply("verify", "PaymentVerificationFailed", NoLoad))
          ELSE IF o = NoOrder
          THEN Done(p, Reply("verify", "NotFound", NoLoad))
          ELSE Goto(p, "verify_dec", [IdleLoc EXCEPT !.d = Load(o), !.idx = 1])
               /\ Answer(p, NoReply)
    /\ UNCHANGED <<stockCount, price, orders, razorpay, gw, now, edits>>

\* verify, lines 120-122, one await Menu.findByIdAndUpdate; after the last one
\* lines 124-126 up to the pre('save') hook.
VerifyDec(p, r) ==
    /\ pc[p] = "verify_dec"
    /\ LET item == loc[p].d.doc.items[loc[p].idx]
       IN /\ stockCount' = IncStock(stockCount, item.menuItem, -item.quantity)
          /\ IF loc[p].idx < Len(loc[p].d.doc.items)
             THEN Goto(p, "verify_dec", [loc[p] EXCEPT !.idx = @ + 1])
             ELSE Goto(p, "verify_save",
                       [loc[p] EXCEPT !.d = PreSave(Activate(@), now, r), !.idx = 0])
    /\ UNCHANGED <<price, orders, razorpay, gw, now, reqs, edits, resp>>

\* verify, lines 126-132: the write of order.save(), then the response.
VerifySave(p) ==
    /\ pc[p] = "verify_save"
    /\ orders' = Save(orders, loc[p].d)
    /\ Done(p, Reply("verify", "ok", loc[p].d))
    /\ UNCHANGED <<stockCount, price, razorpay, gw, now, reqs, edits>>

\* scan, lines 185-192: await Order.findOne, the checks, the assignments.
ScanFind(p, t) ==
    /\ Begin(p)
    /\ LET o == FindOne(orders, "qrCodeData", t)
       IN IF o = NoOrder THEN Done(p, Reply("scan", "NotFound", NoLoad))
          ELSE IF ~ScanAllowed(orders[o])
          THEN Done(p, Reply("scan", "InvalidState", Load(o)))
          ELSE Goto(p, "scan_save", [IdleLoc EXCEPT !.d = MarkScanned(Load(o), now)])
               /\ Answer(p, NoReply)
    /\ UNCHANGED <<stockCount, price, orders, razorpay, gw, now, edits>>

\* scan, lines 193-195
ScanSave(p) ==
    /\ pc[p] = "scan_save"
    /\ orders' = Save(orders, loc[p].d)
    /\ Done(p, Reply("scan", "ok", loc[p].d))
    /\ UNCHANGED <<stockCount, price, razorpay, gw, now, reqs, edits>>

\* deliver, lines 204-209
DeliverFind(p, id) ==
    /\ Begin(p)
    /\ LET o == FindById(orders, id)
       IN IF o = NoOrder THEN Done(p, Reply("deliver", "NotFound", NoLoad))
          ELSE IF ~DeliverAllowed(orders[o])
          THEN Done(p, Reply("deliver", "InvalidState", Load(o)))
          ELSE Goto(p, "deliver_save", [IdleLoc EXCEPT !.d = MarkDelivered(Load(o), now)])
               /\ Answer(p, NoReply)
    /\ UNCHANGED <<stockCount, price, orders, razorpay, gw, now, edits>>

\* deliver, lines 210-212
DeliverSave(p) ==
    /\ pc[p] = "deliver_save"
    /\ orders' = Save(orders, loc[p].d)
    /\ Done(p, Reply("deliver", "ok", loc[p].d))
    /\ UNCHANGED <<stockCount, price, razorpay, gw, now, reqs, edits>>

\* cancel, lines 221-226
CancelFind(p, id) ==
    /\ Begin(p)
    /\ LET o == FindById(orders, id)
       IN IF o = NoOrder THEN Done(p, Reply("cancel", "NotFound", NoLoad))
          ELSE IF ~CancelAllowed(orders[o])
          THEN Done(p, Reply("cancel", "InvalidState", Load(o)))
          ELSE Goto(p, "cancel_inc", [IdleLoc EXCEPT !.d = Load(o), !.idx = 1])
               /\ Answer(p, NoReply)
    /\ UNCHANGED <<stockCount, price, orders, razorpay, gw, now, edits>>

\* cancel, lines 228-232, one await Menu.findByIdAndUpdate
CancelInc(p) ==
    /\ pc[p] = "cancel_inc"
    /\ LET item == loc[p].d.doc.items[loc[p].idx]
       IN /\ stockCount' = IncStock(stockCount, item.menuItem, item.quantity)
          /\ IF loc[p].idx < Len(loc[p].d.doc.items)
             THEN Goto(p, "cancel_inc", [loc[p] EXCEPT !.idx = @ + 1])
             ELSE Goto(p, "cancel_save",
                       [loc[p] EXCEPT !.d = MarkCancelled(@), !.idx = 0])
    /\ UNCHANGED <<price, orders, razorpay, gw, now, reqs, edits, resp>>

\* cancel, lines 233-235
CancelSave(p) ==
    /\ pc[p] = "cancel_save"
    /\ orders' = Save(orders, loc[p].d)
    /\ Done(p, Reply("cancel", "ok", loc[p].d))
    /\ UNCHANGED <<stockCount, price, razorpay, gw, now, reqs, edits>>

\* The handler whose await a request slot is suspended at.
OpAt(label) ==
    CASE label \in {"checkout_line", "checkout_gateway", "checkout_create"} -> "checkout"
      [] label \in {"verify_dec", "verify_save"} -> "verify"
      [] label = "scan_save" -> "scan"
      [] label = "deliver_save" -> "deliver"
      [] label \in {"cancel_inc", "cancel_save"} -> "cancel"
      [] OTHER -> "none"

\* The awaited store call rejects: the handler's catch answers 500 (lines 99-102,
\* 133-135, 196-198, 213-215, 236-238) and nothing the handler did is undone.
\* The gateway call has a catch of its own (line 67) and is not covered here.
Throw(p) ==
    /\ pc[p] \notin {"idle", "checkout_gateway"}
    /\ Done(p, Reply(OpAt(pc[p]), "error", NoLoad))
    /\ UNCHANGED <<stockCount, price, orders, razorpay, gw, now, reqs, edits>>

NextC ==
    \/ Tick
    \/ \E i \in Items, v \in 1..MaxPrice : UpdatePrice(i, v)
    \/ \E p \in Procs :
         \/ \E cart \in Carts : CheckoutBegin(p, cart)
         \/ CheckoutLine(p)
         \/ \E gwok \in BOOLEAN : CheckoutGateway(p, gwok)
         \/ CheckoutCreate(p)
         \/ \E h \in Handles, proof \in Proofs : VerifyFind(p, h, proof)
         \/ \E r \in Rands : VerifyDec(p, r)
         \/ VerifySave(p)
         \/ \E t \in Tokens : ScanFind(p, t)
         \/ ScanSave(p)
         \/ \E id \in 1..MaxOrders : DeliverFind(p, id)
         \/ DeliverSave(p)
         \/ \E id \in 1..MaxOrders : CancelFind(p, id)
         \/ CancelInc(p)
         \/ CancelSave(p)
         \/ Throw(p)

SpecC == Init /\ [][NextC]_vars

\* ================================================================ claims
Stored == 1..Len(orders)

\* C1: in every reachable state every catalog item's stockCount is >= 0, whatever
\* the order of Checkout, VerifyPayment and Cancel calls.
StockNeverNegative == \A i \in Items : stockCount[i] >= 0

\* C2: an order's lifecycleState only ever changes along the five edges of the
\* state machine; scanned, delivered and cancelled orders never become active
\* again and delivered and cancelled orders never change.
LifecycleEdges ==
    { <<"pending_payment", "active">>, <<"active", "scanned">>,
      <<"scanned", "delivered">>, <<"pending_payment", "cancelled">>,
      <<"active", "cancelled">> }

OnlyLifecycleEdges ==
    [][\A o \in Stored :
         \/ orders'[o].status = orders[o].status
         \/ <<orders[o].status, orders'[o].status>> \in LifecycleEdges]_vars

\* C3: when the last request was a Scan of token t that succeeded, a Scan of the
\* same token answers InvalidState and leaves every order's lifecycleState and
\* scannedAt as they were.
ScanSucceedsOnce ==
    [][\A t \in Tokens :
         ( /\ resp[First].op = "scan"
           /\ resp[First].kind = "ok"
           /\ resp[First].qrCodeData = t
           /\ Scan(First, t) )
         => /\ resp'[First].kind = "InvalidState"
            /\ \A o \in Stored : /\ orders'[o].status = orders[o].status
                                 /\ orders'[o].scannedAt = orders[o].scannedAt]_vars

\* C3 witness: a Scan has been refused because the order was already scanned.
SecondScanRefused ==
    /\ resp[First].op = "scan"
    /\ resp[First].kind = "InvalidState"
    /\ resp[First].status = "scanned"
    /\ orders[resp[First].order].scannedAt # NoDate

\* C4: of two Scan calls for one token that run concurrently at most one
\* succeeds: no Scan's write lands, and is answered with success, on an order
\* that another Scan has turned to scanned since this one looked it up.
ConcurrentScansOneWinner ==
    [][\A q \in Procs :
         ScanSave(q) => orders[loc[q].d.id].status # "scanned"]_vars

\* C5: once the stored order's redemptionToken is non-empty no VerifyPayment
\* call, concurrent or not, replaces it by a different value, and every
\* VerifyPayment answer carries the stored token.
TokenIssuedOnce ==
    [][\A o \in Stored :
         /\ orders[o].qrCodeData # NoToken
              => orders'[o].qrCodeData = orders[o].qrCodeData
         /\ \A p \in Procs :
              (VerifySave(p) /\ loc[p].d.id = o)
              => resp'[p].qrCodeData = orders'[o].qrCodeData]_vars

\* The quantity an order holds of catalog item i, over all its lines.
RECURSIVE Ordered(_, _)
Ordered(items, i) ==
    IF items = << >> THEN 0
    ELSE (IF Head(items).menuItem = i THEN Head(items).quantity ELSE 0)
         + Ordered(Tail(items), i)

\* C6: a VerifyPayment that finds a pending_payment order lowers each catalog
\* item's stockCount by exactly the quantity the order holds of it, which is
\* zero for the items the order does not name.
VerifyCommitsStock ==
    [][\A h \in Handles, proof \in Proofs, r \in Rands :
         LET o == FindOne(orders, "razorpayOrderId", h)
         IN ( /\ o # NoOrder
              /\ orders[o].status = "pending_payment"
              /\ VerifyPayment(First, h, proof, r) )
            => /\ resp'[First].kind = "ok"
               /\ \A i \in Items :
                    stockCount'[i] = stockCount[i] - Ordered(orders[o].items, i)]_vars

\* C6 witness: the second request verified an order of two lines, one catalog
\* item lowered and another left alone.
VerifiedTwoLines ==
    /\ reqs = 2
    /\ resp[First].op = "verify"
    /\ resp[First].kind = "ok"
    /\ Len(orders[resp[First].order].items) = 2
    /\ \E i, j \in Items : stockCount[i] < MaxStock /\ stockCount[j] = MaxStock

\* C7: a VerifyPayment for an order that has already been verified leaves every
\* stockCount and the order's lifecycleState, paymentState and redemptionToken
\* as the first call left them.
VerifyIsIdempotent ==
    [][\A h \in Handles, proof \in Proofs, r \in Rands :
         LET o == FindOne(orders, "razorpayOrderId", h)
         IN ( /\ VerifyPayment(First, h, proof, r)
              /\ o # NoOrder
              /\ resp[First].op = "verify"
              /\ resp[First].kind = "ok"
              /\ resp[First].order = o )
            => /\ stockCount' = stockCount
               /\ orders'[o].status = orders[o].status
               /\ orders'[o].paymentStatus = orders[o].paymentStatus
               /\ orders'[o].qrCodeData = orders[o].qrCodeData]_vars

\* C8: no two distinct orders hold the same non-empty redemptionToken.
TokensUnique ==
    \A o, q \in Stored :
        (o # q /\ orders[o].qrCodeData # NoToken)
        => orders[o].qrCodeData # orders[q].qrCodeData

\* The lines of a cart that ask for more than the catalog holds.
OverStock(cart) ==
    {i \in 1..Len(cart) :
        cart[i].menuItem \in Items /\ cart[i].quantity > stockCount[cart[i].menuItem]}

\* The lines of a cart that name no catalog item.
Absent(cart) == {i \in 1..Len(cart) : cart[i].menuItem \notin Items}

\* A Checkout step of the cart that creates nothing and moves no stock.
Refused(cart, gwok, kind) ==
    Checkout(First, cart, gwok)
    => /\ resp'[First].kind = kind
       /\ orders' = orders
       /\ stockCount' = stockCount

\* C9 as stated: Checkout fails with InsufficientStock whenever any line asks
\* for more than its item's stockCount, creating no order and leaving every
\* stockCount; a successful Checkout leaves every stockCount too.
CheckoutInsufficientStock ==
    [][(reqs' # reqs /\ resp'[First].op = "checkout") =>
         /\ stockCount' = stockCount
         /\ \A cart \in Carts, gwok \in BOOLEAN :
              OverStock(cart) # {} => Refused(cart, gwok, "InsufficientStock")]_vars

\* C9 amended: the answer is NotFound instead when a line before the first
\* over-stock line names no catalog item.
CheckoutFirstFailingLine ==
    [][(reqs' # reqs /\ resp'[First].op = "checkout") =>
         /\ stockCount' = stockCount
         /\ \A cart \in Carts, gwok \in BOOLEAN :
              OverStock(cart) # {}
              => Refused(cart, gwok,
                         IF \E j \in Absent(cart) : j < Lowest(OverStock(cart))
                         THEN "NotFound" ELSE "InsufficientStock")]_vars

\* C9 witness: a Checkout was refused for stock after an earlier one went
\* through, and no order was created for it.
CheckoutRefusedForStock ==
    /\ resp[First].op = "checkout"
    /\ resp[First].kind = "InsufficientStock"
    /\ Len(orders) = 1
    /\ reqs >= 2

\* quantity x snapshotted unit price, summed over an order's lines.
RECURSIVE SumLines(_)
SumLines(items) ==
    IF items = << >> THEN 0
    ELSE Head(items).quantity * Head(items).price + SumLines(Tail(items))

\* C10: every stored order's totalAmount is the sum over its lines of quantity
\* times snapshotted price, and no step changes a stored order's totalAmount or
\* its lines, a catalog price edit included.
TotalIsSumOfLines ==
    /\ [](\A o \in Stored : orders[o].totalAmount = SumLines(orders[o].items))
    /\ [][\A o \in Stored : /\ orders'[o].totalAmount = orders[o].totalAmount
                            /\ orders'[o].items = orders[o].items]_vars

\* C10 witness: an order of two lines, since verified, one of whose items has
\* had its catalog price edited after the snapshot.
TotalOutlivesPriceEdit ==
    \E o \in Stored :
        /\ Len(orders[o].items) = 2
        /\ orders[o].status = "active"
        /\ \E k \in 1..2 :
             price[orders[o].items[k].menuItem] # orders[o].items[k].price

CancelUndoesVerify ==
    /\ [][( /\ reqs' # reqs
            /\ resp'[First].op = "verify"
            /\ resp'[First].kind = "ok" )
          => \A i \in Items :
               stockCount'[i] =
                 stockCount[i] - Ordered(orders[resp'[First].order].items, i)]_vars
    /\ [][\A id \in 1..MaxOrders :
            ( /\ resp[First].op = "verify"
              /\ resp[First].kind = "ok"
              /\ resp[First].order = id
              /\ Cancel(First, id) )
            => /\ resp'[First].kind = "ok"
               /\ \A i \in Items :
                    stockCount'[i] = stockCount[i] + Ordered(orders[id].items, i)]_vars
    /\ []( ( /\ reqs = 3
             /\ resp[First].op = "cancel"
             /\ resp[First].kind = "ok"
             /\ orders[resp[First].order].paymentStatus = "completed" )
           => \A i \in Items : stockCount[i] = MaxStock )

\* C12 witness: the third request cancelled the two-line order the second one
\* had verified.
VerifiedThenCancelled ==
    /\ reqs = 3
    /\ resp[First].op = "cancel"
    /\ resp[First].kind = "ok"
    /\ orders[resp[First].order].paymentStatus = "completed"
    /\ orders[resp[First].order].status = "cancelled"
    /\ Len(orders[resp[First].order].items) = 2

\* C13: Cancel of a scanned or delivered order answers InvalidState and leaves
\* every order and every stockCount.
CancelRefusedOnceScanned ==
    [][\A id \in 1..MaxOrders :
         ( /\ Cancel(First, id)
           /\ id \in Stored
           /\ orders[id].status \in {"scanned", "delivered"} )
         => /\ resp'[First].kind = "InvalidState"
            /\ orders' = orders
            /\ stockCount' = stockCount]_vars

\* C13 witness: the Cancel of a delivered order was refused.
CancelOfDeliveredRefused ==
    /\ resp[First].op = "cancel"
    /\ resp[First].kind = "InvalidState"
    /\ resp[First].status = "delivered"
    /\ orders[resp[First].order].status = "delivered"

\* C14: Cancel of an order that is still pending_payment leaves every
\* stockCount as it was.
CancelOfPendingKeepsStock ==
    [][\A id \in 1..MaxOrders :
         ( /\ Cancel(First, id)
           /\ id \in Stored
           /\ orders[id].status = "pending_payment" )
         => stockCount' = stockCount]_vars

\* C15: VerifyPayment with a proof that is not the gateway's signature for the
\* handle of a stored order answers PaymentVerificationFailed and leaves every
\* stockCount and every order.
ForgedProofRejected ==
    [][\A h \in Handles, r \in Rands :
         ( /\ VerifyPayment(First, h, "forged", r)
           /\ FindOne(orders, "razorpayOrderId", h) # NoOrder )
         => /\ resp'[First].kind = "PaymentVerificationFailed"
            /\ stockCount' = stockCount
            /\ orders' = orders]_vars

\* The stock adjustments a VerifyPayment or Cancel in flight has made so far.
Adjusted(p) ==
    IF pc[p] \in {"verify_dec", "cancel_inc"} THEN loc[p].idx - 1
    ELSE IF pc[p] \in {"verify_save", "cancel_save"} THEN Len(loc[p].d.doc.items)
    ELSE 0

\* C16: a VerifyPayment or Cancel that fails at a stock update or at the order
\* save leaves none of its stock adjustments behind (the order's state change,
\* the last step, is not visible then).
NoPartialTransition ==
    [][\A p \in Procs :
         (Throw(p) /\ OpAt(pc[p]) \in {"verify", "cancel"})
         => Adjusted(p) = 0]_vars

\* C17: no two orders share a paymentReference, the placeholder handles of the
\* fallback path included.
PaymentReferencesUnique ==
    \A o, q \in Stored :
        o # q => orders[o].razorpayOrderId # orders[q].razorpayOrderId

\* C18: once set, an order's scannedAt and deliveredAt are never written again
\* with another value.
TimestampsWrittenOnce ==
    [][\A o \in Stored :
         /\ orders[o].scannedAt # NoDate
              => orders'[o].scannedAt = orders[o].scannedAt
         /\ orders[o].deliveredAt # NoDate
              => orders'[o].deliveredAt = orders[o].deliveredAt]_vars

\* What the first n orders that are active, scanned or delivered hold of item i.
RECURSIVE Held(_, _)
Held(n, i) ==
    IF n = 0 THEN 0
    ELSE (IF orders[n].status \in {"active", "scanned", "delivered"}
          THEN Ordered(orders[n].items, i) ELSE 0)
         + Held(n - 1, i)

\* C19: for every catalog item, stockCount plus what the active, scanned and
\* delivered orders hold of it is the stockCount the item started with.
StockConserved ==
    \A i \in Items : stockCount[i] + Held(Len(orders), i) = MaxStock

\* C20: every active, scanned or delivered order is paid and has a token, and
\* a token once set is never emptied, so an order without one was never active.
PaidAndTokened ==
    /\ [](\A o \in Stored :
            orders[o].status \in {"active", "scanned", "delivered"}
            => /\ orders[o].paymentStatus = "completed"
               /\ orders[o].qrCodeData # NoToken)
    /\ [][\A o \in Stored :
            orders[o].qrCodeData # NoToken => orders'[o].qrCodeData # NoToken]_vars

\* C20 witness: a scanned order, paid and holding its token.
ScannedOrderPaidAndTokened ==
    \E o \in Stored :
        /\ orders[o].status = "scanned"
        /\ orders[o].paymentStatus = "completed"
        /\ orders[o].qrCodeData # NoToken

====
